---- MODULE Spec2Model ----
(***************************************************************************)
(* The analysis tools of stock_tools.py as a state machine.  One call of   *)
(* one tool method is one behaviour: Init draws the method and its         *)
(* arguments, the method's action computes the returned mapping.           *)
(*                                                                         *)
(* Numbers.  Python floats are modelled as exact rationals: a number is    *)
(* Num(n, d), the reduced fraction n/d with d > 0.  The Python value None  *)
(* (and any other non-numeric value, which fails the same operators with   *)
(* the same TypeError) is PyNone.  A Python dict is a function whose       *)
(* DOMAIN is the set of keys present.                                      *)
(*                                                                         *)
(* heap and frame are used where several calls are made on the same tool   *)
(* objects: heap holds the objects (the tools and the dicts the methods    *)
(* create), frame each caller's running call.  A single call leaves both   *)
(* empty.  In the run of StockAnalysisCrew.analyze_stock, frame holds the  *)
(* locals stock_data and results, and heap the think calls the agent       *)
(* objects have received, in order.                                        *)
(***************************************************************************)
EXTENDS Integers, Sequences, FiniteSets, TLC

VARIABLES call, args, ret, pc, heap, frame

vars == <<call, args, ret, pc, heap, frame>>

----------------------------------------------------------------------------
(* Values *)

PyNone == [tag |-> "none", n |-> 0, d |-> 1]

RECURSIVE Gcd(_, _)
Gcd(a, b) == IF b = 0 THEN a ELSE Gcd(b, a % b)

Abs(x) == IF x < 0 THEN -x ELSE x

\* the rational n/d (d # 0), reduced, with a positive denominator
Num(n, d) ==
    LET g == Gcd(Abs(n), Abs(d))
        s == IF d < 0 THEN -1 ELSE 1
    IN  [tag |-> "num", n |-> s * (n \div g), d |-> s * (d \div g)]

Int2Num(i) == [tag |-> "num", n |-> i, d |-> 1]

IsNum(x) == x.tag = "num"

\* x > 0 on numbers
Pos(x) == x.n > 0

Lcm(a, b) == (a \div Gcd(a, b)) * b

Add(x, y) ==
    LET l == Lcm(x.d, y.d)
    IN  Num(x.n * (l \div x.d) + y.n * (l \div y.d), l)

Neg(x) == [tag |-> "num", n |-> -x.n, d |-> x.d]

Sub(x, y) == Add(x, Neg(y))

Mul(x, y) ==
    LET g1 == Gcd(Abs(x.n), y.d)
        g2 == Gcd(Abs(y.n), x.d)
    IN  Num((x.n \div g1) * (y.n \div g2), (x.d \div g2) * (y.d \div g1))

\* x / y for y # 0
Div(x, y) == Mul(x, Num(y.d, y.n))

Less(x, y) == Sub(x, y).n < 0

Hundred == Int2Num(100)

----------------------------------------------------------------------------
(* Dicts *)

EmptyDict == [k \in {} |-> PyNone]

\* d[k] = v
Put(d, k, v) == (k :> v) @@ d

\* d.get(k, default)
Get(d, k, default) == IF k \in DOMAIN d THEN d[k] ELSE default

\* every dict with keys among ks and values in vs
Dicts(ks, vs) == UNION {[s -> vs] : s \in SUBSET ks}

----------------------------------------------------------------------------
(* Exceptions.  A try body is run statement by statement on an execution   *)
(* state [out, raised]: out is the mapping built so far, raised says that  *)
(* a statement has raised, after which the rest of the body is skipped.    *)

Raise(st) == [out |-> st.out, raised |-> TRUE]

\* out[key] = value
Store(st, key, value) == [out |-> Put(st.out, key, value), raised |-> st.raised]

\* "x > 0" on a number; on None Python raises TypeError
NonZero(x) == x.n # 0
Positive(x) == x.n > 0

\* "a > 0 and b > 0 ...", left to right with short circuit:
\* "raise" when a test is reached whose operand is not a number
RECURSIVE Truth(_)
Truth(tests) ==
    IF tests = <<>> THEN "true"
    ELSE IF ~IsNum(Head(tests)) THEN "raise"
    ELSE IF Positive(Head(tests)) THEN Truth(Tail(tests))
    ELSE "false"

----------------------------------------------------------------------------
(* FinancialCalculatorTool.calculate_financial_ratios *)

\* (num / den) * 100
PercentNoScale(num, den) == Div(num, den)
Percent(num, den) == Mul(Div(num, den), Hundred)

\* num / den
Quotient(num, den) == Div(num, den)

\* ratios[key] = <num / den, as a percentage when pct>; the division raises
\* TypeError on a non-number and ZeroDivisionError on a zero divisor
AssignRatio(st, a) ==
    IF st.raised THEN st
    ELSE IF ~IsNum(a.num) \/ ~IsNum(a.den) THEN Raise(st)
    ELSE IF a.den.n = 0 THEN Raise(st)
    ELSE Store(st, a.key,
             IF a.pct THEN Percent(a.num, a.den) ELSE Quotient(a.num, a.den))

RECURSIVE AssignRatios(_, _)
AssignRatios(st, as) ==
    IF as = <<>> THEN st
    ELSE AssignRatios(AssignRatio(st, Head(as)), Tail(as))

\* if <tests>: <assignments>
IfRatios(st, tests, as) ==
    IF st.raised THEN st
    ELSE LET t == Truth(tests)
         IN  IF t = "raise" THEN Raise(st)
             ELSE IF t = "false" THEN st
             ELSE AssignRatios(st, as)

Ratio(key, num, den, pct) == [key |-> key, num |-> num, den |-> den, pct |-> pct]

Zero == Int2Num(0)

\* financial_data.get(section, {}).get(key, 0); "raise" when the section is
\* not a dict (None has no get)
SectionOf(financial_data, section) == Get(financial_data, section, EmptyDict)

SectionsOk(financial_data) ==
    \A s \in {"income_statement", "balance_sheet", "stock_info"} :
        SectionOf(financial_data, s) # PyNone

Fact(financial_data, section, key) ==
    Get(SectionOf(financial_data, section), key, Zero)

RatiosBody(financial_data) ==
    LET st0 == [out |-> EmptyDict, raised |-> FALSE]
    IN  IF financial_data = PyNone \/ ~SectionsOk(financial_data) THEN Raise(st0)
        ELSE
        LET revenue      == Fact(financial_data, "income_statement", "total_revenue")
            net_income   == Fact(financial_data, "income_statement", "net_income")
            gross_profit == Fact(financial_data, "income_statement", "gross_profit")
            total_assets == Fact(financial_data, "balance_sheet", "total_assets")
            total_debt   == Fact(financial_data, "balance_sheet", "total_debt")
            equity       == Fact(financial_data, "balance_sheet", "stockholder_equity")
            market_cap   == Fact(financial_data, "stock_info", "market_cap")
            s1 == IfRatios(st0, <<revenue>>,
                     <<Ratio("gross_margin", gross_profit, revenue, TRUE),
                       Ratio("net_margin", net_income, revenue, TRUE)>>)
            s2 == IfRatios(s1, <<total_assets>>,
                     <<Ratio("roa", net_income, total_assets, TRUE)>>)
            s3 == IfRatios(s2, <<equity>>,
                     <<Ratio("roe", net_income, equity, TRUE)>>)
            s4 == IfRatios(s3, <<total_assets>>,
                     <<Ratio("debt_to_assets", total_debt, total_assets, TRUE)>>)
            s5 == IfRatios(s4, <<equity>>,
                     <<Ratio("debt_to_equity", total_debt, equity, TRUE)>>)
            s6 == IfRatios(s5, <<net_income, market_cap>>,
                     <<Ratio("pe_ratio", market_cap, net_income, FALSE)>>)
            s7 == IfRatios(s6, <<revenue, market_cap>>,
                     <<Ratio("price_to_sales", market_cap, revenue, FALSE)>>)
            s8 == IfRatios(s7, <<equity, market_cap>>,
                     <<Ratio("price_to_book", market_cap, equity, FALSE)>>)
        IN  s8

\* except Exception as e: ratios["error"] = ...; return ratios
calculate_financial_ratios(financial_data) ==
    LET st == RatiosBody(financial_data)
    IN  IF st.raised THEN Put(st.out, "error", "Calculation error") ELSE st.out

----------------------------------------------------------------------------
(* Inputs of calculate_financial_ratios *)

\* numeric facts range over the integers -1 .. MaxFact
MaxFact == 2

FactValues == {Int2Num(i) : i \in -1 .. MaxFact}

\* a fact that is absent, null, zero or positive
LooseValues == {PyNone, Int2Num(0), Int2Num(1)}

IncomeKeys == {"total_revenue", "net_income", "gross_profit"}
BalanceKeys == {"total_assets", "total_debt", "stockholder_equity"}
StockInfoKeys == {"market_cap"}

FinancialData(incomes, balances, infos) ==
    {[income_statement |-> i, balance_sheet |-> b, stock_info |-> s] :
        i \in incomes, b \in balances, s \in infos}

\* every fact present and numeric
NumericFinancialData ==
    FinancialData([IncomeKeys -> FactValues], [BalanceKeys -> FactValues],
                  [StockInfoKeys -> FactValues])

\* every fact absent, None, 0 or 1
LooseFinancialData ==
    FinancialData(Dicts(IncomeKeys, LooseValues), Dicts(BalanceKeys, LooseValues),
                  Dicts(StockInfoKeys, LooseValues))

\* a section absent or None
SampleSection(keys) == [k \in keys |-> Int2Num(1)]

SparseFinancialData ==
    UNION {[ks -> {PyNone}] \cup
           {[k \in ks |-> SampleSection(IF k = "income_statement" THEN IncomeKeys
                                        ELSE IF k = "balance_sheet" THEN BalanceKeys
                                        ELSE StockInfoKeys)]} :
           ks \in SUBSET {"income_statement", "balance_sheet", "stock_info"}}

InitRatios ==
    /\ call = "calculate_financial_ratios"
    /\ args \in {[financial_data |-> fd] :
                    fd \in NumericFinancialData \cup LooseFinancialData
                              \cup SparseFinancialData \cup {PyNone}}
    /\ ret = EmptyDict
    /\ pc = "start"
    /\ heap = <<>>
    /\ frame = <<>>

CallRatios ==
    /\ pc = "start"
    /\ call = "calculate_financial_ratios"
    /\ ret' = calculate_financial_ratios(args.financial_data)
    /\ pc' = "done"
    /\ UNCHANGED <<call, args, heap, frame>>

SpecRatios == InitRatios /\ [][CallRatios]_vars

----------------------------------------------------------------------------
(* Claims about calculate_financial_ratios *)

RatiosDone == pc = "done" /\ call = "calculate_financial_ratios"

\* the fact as the method reads it, and whether it is a number above zero
FactOf(section, key) == Fact(args.financial_data, section, key)
FactPos(section, key) == IsNum(FactOf(section, key)) /\ FactOf(section, key).n > 0

RevenuePos == FactPos("income_statement", "total_revenue")
NetIncomePos == FactPos("income_statement", "net_income")
AssetsPos == FactPos("balance_sheet", "total_assets")
EquityPos == FactPos("balance_sheet", "stockholder_equity")
MarketCapPos == FactPos("stock_info", "market_cap")

Has(key) == key \in DOMAIN ret

\* C1: when no error occurred, the returned ratio set holds a ratio if and
\* only if its precondition holds: the margins iff revenue > 0, roa and
\* debt_to_assets iff total_assets > 0, roe and debt_to_equity iff equity > 0,
\* pe_ratio iff net_income > 0 and market_cap > 0, price_to_sales iff
\* revenue > 0 and market_cap > 0, price_to_book iff equity > 0 and
\* market_cap > 0; every ratio present is a finite number.
C1_RatioPresentIffPrecondition ==
    (RatiosDone /\ ~Has("error")) =>
        /\ Has("gross_margin") <=> RevenuePos
        /\ Has("net_margin") <=> RevenuePos
        /\ Has("roa") <=> AssetsPos
        /\ Has("debt_to_assets") <=> AssetsPos
        /\ Has("roe") <=> EquityPos
        /\ Has("debt_to_equity") <=> EquityPos
        /\ Has("pe_ratio") <=> (NetIncomePos /\ MarketCapPos)
        /\ Has("price_to_sales") <=> (RevenuePos /\ MarketCapPos)
        /\ Has("price_to_book") <=> (EquityPos /\ MarketCapPos)
        /\ \A k \in DOMAIN ret : IsNum(ret[k]) /\ ret[k].d > 0

\* a call without error whose revenue is negative and whose assets are
\* positive: the margins are left out, roa is computed
C1_Witness ==
    /\ RatiosDone /\ ~Has("error")
    /\ FactOf("income_statement", "total_revenue").n < 0
    /\ ~Has("gross_margin") /\ ~Has("net_margin")
    /\ Has("roa") /\ ~Has("price_to_sales")

\* the numerator and divisor of each ratio and whether it is a percentage
RatioFormula(key) ==
    LET inc(k) == FactOf("income_statement", k)
        bal(k) == FactOf("balance_sheet", k)
        cap    == FactOf("stock_info", "market_cap")
    IN  CASE key = "gross_margin"   -> <<inc("gross_profit"), inc("total_revenue"), 100>>
          [] key = "net_margin"     -> <<inc("net_income"), inc("total_revenue"), 100>>
          [] key = "roa"            -> <<inc("net_income"), bal("total_assets"), 100>>
          [] key = "roe"            -> <<inc("net_income"), bal("stockholder_equity"), 100>>
          [] key = "debt_to_assets" -> <<bal("total_debt"), bal("total_assets"), 100>>
          [] key = "debt_to_equity" -> <<bal("total_debt"), bal("stockholder_equity"), 100>>
          [] key = "pe_ratio"       -> <<cap, inc("net_income"), 1>>
          [] key = "price_to_sales" -> <<cap, inc("total_revenue"), 1>>
          [] key = "price_to_book"  -> <<cap, bal("stockholder_equity"), 1>>

\* v = num / den * scale, cross-multiplied
IsScaledQuotient(v, num, den, scale) ==
    v.n * den.n * num.d = scale * num.n * den.d * v.d

\* C2: every ratio returned has the value of its formula: numerator / divisor
\* x 100 for the six percentages, market_cap / divisor for the three
\* valuation ratios; with gross_profit = revenue > 0, gross_margin is 100.
C2_RatioValues ==
    RatiosDone =>
        /\ \A k \in DOMAIN ret \ {"error"} :
              LET f == RatioFormula(k)
              IN  IsScaledQuotient(ret[k], f[1], f[2], f[3])
        /\ (RevenuePos /\ FactOf("income_statement", "gross_profit")
                            = FactOf("income_statement", "total_revenue"))
              => (Has("gross_margin") /\ ret["gross_margin"] = Int2Num(100))

\* all nine ratios computed, gross_profit = revenue, and a P/E other than 1
C2_Witness ==
    /\ RatiosDone /\ ~Has("error")
    /\ Cardinality(DOMAIN ret) = 9
    /\ FactOf("income_statement", "gross_profit") = FactOf("income_statement", "total_revenue")
    /\ ret["gross_margin"] = Int2Num(100)
    /\ ret["pe_ratio"] = Int2Num(2)
    /\ ret["debt_to_equity"] = Int2Num(50)

\* C3: when an error occurs inside calculate_financial_ratios the returned
\* mapping is the single error entry, with no ratio next to it.
C3_ErrorAlone ==
    (RatiosDone /\ Has("error")) => DOMAIN ret = {"error"}

----------------------------------------------------------------------------
(* FinancialCalculatorTool.calculate_technical_indicators *)

\* a Python list
PyList(items) == [tag |-> "list", items |-> items]

\* the square root of a non-negative rational, kept exact: two roots are
\* equal exactly when their radicands are
Sqrt(x) == [tag |-> "sqrt", n |-> x.n, d |-> x.d]

\* root * c, for a root and an integer c > 0
ScaleRoot(root, c) == [tag |-> "scaled sqrt", by |-> c, n |-> root.n, d |-> root.d]

\* seq[-k:]
WholeList(seq, k) == seq
LastK(seq, k) ==
    IF k >= Len(seq) THEN seq ELSE SubSeq(seq, Len(seq) - k + 1, Len(seq))

\* seq[-k], 1 <= k <= Len(seq)
FromEnd(seq, k) == seq[Len(seq) - k + 1]

AllNum(seq) == \A i \in 1 .. Len(seq) : IsNum(seq[i])

\* sum(seq) of numbers.  The arithmetic is exact, so the order of the
\* additions does not change the sum: the halves are added separately to
\* keep the evaluation shallow.
RECURSIVE SumRange(_, _, _)
SumRange(seq, lo, hi) ==
    IF lo > hi THEN Zero
    ELSE IF lo = hi THEN seq[lo]
    ELSE LET mid == (lo + hi) \div 2
         IN  Add(SumRange(seq, lo, mid), SumRange(seq, mid + 1, hi))
Sum(seq) == SumRange(seq, 1, Len(seq))

\* min(seq), max(seq) of a non-empty list of numbers
Min(seq) ==
    seq[CHOOSE i \in 1 .. Len(seq) : \A j \in 1 .. Len(seq) : ~Less(seq[j], seq[i])]
Max(seq) ==
    seq[CHOOSE i \in 1 .. Len(seq) : \A j \in 1 .. Len(seq) : ~Less(seq[i], seq[j])]

\* len(price_data) >= k
AtLeastOver(n, k) == n > k
AtLeast(n, k) == n >= k

SmaShort == 20
SmaLong == 50
MomentumBack == 10
VolatilityWindow == 20
RangeWindow == 20

\* indicators[key] = sum(price_data[-k:]) / k
Sma(st, prices, key, k) ==
    IF st.raised \/ ~AtLeast(Len(prices), k) THEN st
    ELSE IF ~AllNum(LastK(prices, k)) THEN Raise(st)
    ELSE Store(st, key, Div(Sum(LastK(prices, k)), Int2Num(k)))

\* indicators["momentum_10"] = ((price_data[-1] / price_data[-10]) - 1) * 100
Momentum(st, prices) ==
    IF st.raised \/ ~AtLeast(Len(prices), MomentumBack) THEN st
    ELSE LET latest == FromEnd(prices, 1)
             back   == FromEnd(prices, MomentumBack)
         IN  IF ~IsNum(latest) \/ ~IsNum(back) THEN Raise(st)
             ELSE IF back.n = 0 THEN Raise(st)
             ELSE Store(st, "momentum_10",
                      Mul(Sub(Div(latest, back), Int2Num(1)), Hundred))

\* [(price_data[i] / price_data[i-1] - 1) for i in range(1, len(price_data))]
ReturnsRaise(prices) ==
    \/ ~AllNum(prices)
    \/ \E i \in 1 .. Len(prices) - 1 : prices[i].n = 0

Returns(prices) ==
    [i \in 1 .. Len(prices) - 1 |->
        Sub(Div(prices[i + 1], prices[i]), Int2Num(1))]

\* (sum([(r - sum(returns)/len(returns))**2 for r in returns]) / len(returns))**0.5
PopulationStdev(returns) ==
    LET m    == Int2Num(Len(returns))
        mean == Div(Sum(returns), m)
        sq   == [i \in 1 .. Len(returns) |->
                    Mul(Sub(returns[i], mean), Sub(returns[i], mean))]
    IN  Sqrt(Div(Sum(sq), m))

\* the prices whose returns enter the volatility: all of price_data
VolatilityPrices(prices) == prices

Volatility(st, prices) ==
    IF st.raised \/ ~AtLeast(Len(prices), VolatilityWindow) THEN st
    ELSE IF ReturnsRaise(VolatilityPrices(prices)) THEN Raise(st)
    ELSE Store(st, "volatility_20d",
             ScaleRoot(PopulationStdev(Returns(VolatilityPrices(prices))), 100))

\* recent_prices = price_data[-20:]; support = min, resistance = max
SupportResistance(st, prices) ==
    IF st.raised \/ ~AtLeast(Len(prices), RangeWindow) THEN st
    ELSE IF ~AllNum(LastK(prices, RangeWindow)) THEN Raise(st)
    ELSE LET recent_prices == LastK(prices, RangeWindow)
         IN  Store(Store(st, "support_level", Min(recent_prices)),
                   "resistance_level", Max(recent_prices))

IndicatorsBody(prices) ==
    LET st0 == [out |-> EmptyDict, raised |-> FALSE]
        s1  == Sma(st0, prices, "sma_20", SmaShort)
        s2  == Sma(s1, prices, "sma_50", SmaLong)
        s3  == Momentum(s2, prices)
        s4  == Volatility(s3, prices)
        s5  == SupportResistance(s4, prices)
    IN  s5

\* return {"error": ...} from the except clause
Reraise(message) == [k \in {"raised"} |-> message]
ErrorOnly(message) == [k \in {"error"} |-> message]

calculate_technical_indicators(price_data) ==
    IF price_data = PyNone \/ Len(price_data.items) < 2
    THEN ErrorOnly("Insufficient price data")
    ELSE LET st == IndicatorsBody(price_data.items)
         IN  IF st.raised THEN ErrorOnly("Technical indicator calculation error")
             ELSE st.out

----------------------------------------------------------------------------
(* Inputs of calculate_technical_indicators *)

\* lists of up to MaxLen prices; prices are the powers of two up to 2^MaxExp
MaxLen == 51
MaxExp == 20

\* a series that starts at 2^e0, moves by the factor 2^m1 for its first s
\* steps and by the factor 2^m2 afterwards
TrendExp(e0, s, m1, m2, i) ==
    e0 + m1 * (IF i - 1 < s THEN i - 1 ELSE s) + m2 * (IF i - 1 < s THEN 0 ELSE i - 1 - s)

TrendOk(n, e0, s, m1, m2) ==
    \A i \in {1, s + 1, n} : TrendExp(e0, s, m1, m2, i) \in 0 .. MaxExp

Trend(n, e0, s, m1, m2) ==
    [i \in 1 .. n |-> Int2Num(2 ^ TrendExp(e0, s, m1, m2, i))]

TrendSeries ==
    {Trend(n, e0, s, m1, m2) :
        <<n, e0, s, m1, m2>> \in
            {t \in (0 .. MaxLen) \X {0, MaxExp} \X (0 .. MaxLen) \X (-1 .. 1) \X (-1 .. 1) :
                t[3] < t[1] /\ TrendOk(t[1], t[2], t[3], t[4], t[5])}}

\* a flat series with one price that is null, zero or negative
OddPrices == {PyNone, Int2Num(0), Int2Num(-1)}

Poked(n, k, v) == [i \in 1 .. n |-> IF i = k THEN v ELSE Int2Num(1)]

PokedSeries ==
    {Poked(n, k, v) : <<n, k, v>> \in
        {t \in (1 .. MaxLen) \X (1 .. MaxLen) \X OddPrices : t[2] <= t[1]}}

InitIndicators ==
    /\ call = "calculate_technical_indicators"
    /\ args \in {[price_data |-> pd] :
                    pd \in {PyNone} \cup {PyList(<<>>)}
                           \cup {PyList(x) : x \in TrendSeries \cup PokedSeries}}
    /\ ret = EmptyDict
    /\ pc = "start"
    /\ heap = <<>>
    /\ frame = <<>>

CallIndicators ==
    /\ pc = "start"
    /\ call = "calculate_technical_indicators"
    /\ ret' = calculate_technical_indicators(args.price_data)
    /\ pc' = "done"
    /\ UNCHANGED <<call, args, heap, frame>>

SpecIndicators == InitIndicators /\ [][CallIndicators]_vars

----------------------------------------------------------------------------
(* Claims about calculate_technical_indicators *)

IndicatorsDone == pc = "done" /\ call = "calculate_technical_indicators"

\* the price list passed, and its length (0 for a missing list)
Prices == IF args.price_data = PyNone THEN <<>> ELSE args.price_data.items
NPrices == Len(Prices)

AllPositive == \A i \in 1 .. NPrices : IsNum(Prices[i]) /\ Prices[i].n > 0

\* C4: fewer than 2 prices (or no list) give the insufficient-data error;
\* 2 or more positive prices give no error, and sma_20, volatility_20d,
\* support_level and resistance_level exactly when n >= 20, sma_50 exactly
\* when n >= 50, momentum_10 exactly when n >= 10, each a number when present.
C4_IndicatorsByLength ==
    IndicatorsDone =>
        /\ NPrices < 2 => ret = [error |-> "Insufficient price data"]
        /\ (NPrices >= 2 /\ AllPositive) =>
              /\ ~Has("error")
              /\ Has("sma_20") <=> NPrices >= 20
              /\ Has("sma_50") <=> NPrices >= 50
              /\ Has("momentum_10") <=> NPrices >= 10
              /\ Has("volatility_20d") <=> NPrices >= 20
              /\ Has("support_level") <=> NPrices >= 20
              /\ Has("resistance_level") <=> NPrices >= 20
              /\ \A k \in DOMAIN ret : ret[k] # PyNone
              /\ NPrices <= 9 => ret = EmptyDict

\* 20 positive prices: everything but sma_50 is reported
C4_Witness ==
    /\ IndicatorsDone /\ NPrices = 20 /\ AllPositive
    /\ DOMAIN ret = {"sma_20", "momentum_10", "volatility_20d",
                     "support_level", "resistance_level"}

\* the positions of the trailing 20 prices
Trailing20 == (NPrices - 19) .. NPrices

\* the integer sum of the trailing 20 prices (all integers here)
RECURSIVE IntSum(_, _, _)
IntSum(seq, lo, hi) ==
    IF lo > hi THEN 0
    ELSE IF lo = hi THEN seq[lo].n
    ELSE IntSum(seq, lo, (lo + hi) \div 2) + IntSum(seq, (lo + hi) \div 2 + 1, hi)

\* C5: with at least 20 positive prices, support_level is the least and
\* resistance_level the greatest of the trailing 20 prices alone, and sma_20
\* is their arithmetic mean; on exactly 20 increasing prices support_level is
\* the first price and resistance_level the last.
C5_Trailing20Only ==
    (IndicatorsDone /\ NPrices >= 20 /\ AllPositive) =>
        /\ \E i \in Trailing20 : ret["support_level"] = Prices[i]
        /\ \A i \in Trailing20 : ret["support_level"].n <= Prices[i].n
        /\ \E i \in Trailing20 : ret["resistance_level"] = Prices[i]
        /\ \A i \in Trailing20 : ret["resistance_level"].n >= Prices[i].n
        /\ ret["sma_20"].n * 20 = IntSum(Prices, NPrices - 19, NPrices) * ret["sma_20"].d
        /\ (NPrices = 20 /\ \A i \in 1 .. 19 : Prices[i].n < Prices[i + 1].n)
              => (ret["support_level"] = Prices[1] /\ ret["resistance_level"] = Prices[20])

\* a list that fell before its trailing 20 prices and rose within them: an
\* older price lies above the resistance level
C5_Witness ==
    /\ IndicatorsDone /\ NPrices > 20 /\ AllPositive
    /\ \E i \in 1 .. NPrices - 20 : Prices[i].n > ret["resistance_level"].n
    /\ ret["support_level"].n < ret["resistance_level"].n
    /\ ret["support_level"] # Prices[NPrices - 19]

\* C6: volatility_20d is taken over the trailing 20 samples only: a list of
\* positive prices and the list of its last 20 prices yield the same
\* volatility_20d.
C6_VolatilityOfTrailing20 ==
    (IndicatorsDone /\ NPrices >= 20 /\ AllPositive) =>
        ret["volatility_20d"] =
            calculate_technical_indicators(PyList(LastK(Prices, 20)))["volatility_20d"]

\* C7: momentum_10 is (latest / price ten positions before the latest - 1)
\* x 100 (stated for positive prices and where that sample exists, from 11
\* prices on).
C7_MomentumTenBack ==
    (IndicatorsDone /\ NPrices >= 11 /\ AllPositive) =>
        LET latest == Prices[NPrices]
            back   == Prices[NPrices - 10]
        IN  ret["momentum_10"].n * back.n =
                (latest.n - back.n) * 100 * ret["momentum_10"].d

(***************************************************************************)
(* RiskCalculatorTool.calculate_var.                                       *)
(*                                                                         *)
(* The index of the reported value is computed in Python floats:           *)
(* int((1 - confidence_level) * len(returns_sorted)).  The two float       *)
(* operations round to 53 significant bits, and the rounding decides the   *)
(* index, so that computation is modelled bit for bit.  A float is a       *)
(* non-negative dyadic number m / 2^e with m a natural number kept in      *)
(* limbs of LimbBits bits, least significant first.                        *)
(***************************************************************************)
LimbBits == 15
Limbs == 6
Precision == 53

RECURSIVE Pow2(_)
Pow2(i) == IF i = 0 THEN 1 ELSE 2 * Pow2(i - 1)

Base == Pow2(LimbBits)

BigZero == [j \in 1 .. Limbs |-> 0]

\* i < Base^2
BigFromInt(i) == [j \in 1 .. Limbs |-> IF j = 1 THEN i % Base
                                       ELSE IF j = 2 THEN i \div Base ELSE 0]

BigToInt(x) == x[1] + Base * x[2]

RECURSIVE MulCarry(_, _, _, _)
MulCarry(x, m, j, carry) ==
    IF j > Limbs THEN <<>>
    ELSE LET t == x[j] * m + carry
         IN  <<t % Base>> \o MulCarry(x, m, j + 1, t \div Base)

\* x * m for 0 <= m <= Base
BigMulSmall(x, m) == MulCarry(x, m, 1, 0)

BigAddSmall(x, a) == MulCarry(x, 1, 1, a)

RECURSIVE SubBorrow(_, _, _, _)
SubBorrow(x, y, j, borrow) ==
    IF j > Limbs THEN <<>>
    ELSE LET t == x[j] - y[j] - borrow
         IN  <<t % Base>> \o SubBorrow(x, y, j + 1, IF t < 0 THEN 1 ELSE 0)

\* x - y for x >= y
BigSub(x, y) == SubBorrow(x, y, 1, 0)

\* remainder of the limbs j .. Limbs of x divided by m (0 < m <= Base)
RECURSIVE RemFrom(_, _, _)
RemFrom(x, m, j) ==
    IF j > Limbs THEN 0 ELSE (RemFrom(x, m, j + 1) * Base + x[j]) % m

BigDivSmall(x, m) ==
    [j \in 1 .. Limbs |-> (RemFrom(x, m, j + 1) * Base + x[j]) \div m]

BigModSmall(x, m) == RemFrom(x, m, 1)

BigShiftLimbsLeft(x, q) == [j \in 1 .. Limbs |-> IF j > q THEN x[j - q] ELSE 0]

BigShiftLimbsRight(x, q) ==
    [j \in 1 .. Limbs |-> IF j + q <= Limbs THEN x[j + q] ELSE 0]

BigShiftLeft(x, s) ==
    BigMulSmall(BigShiftLimbsLeft(x, s \div LimbBits), Pow2(s % LimbBits))

BigShiftRight(x, s) ==
    BigDivSmall(BigShiftLimbsRight(x, s \div LimbBits), Pow2(s % LimbBits))

BigBit(x, i) == (x[(i \div LimbBits) + 1] \div Pow2(i % LimbBits)) % 2

BigBitLength(x) ==
    IF x = BigZero THEN 0
    ELSE 1 + CHOOSE i \in 0 .. Limbs * LimbBits - 1 :
                 /\ BigBit(x, i) = 1
                 /\ \A h \in i + 1 .. Limbs * LimbBits - 1 : BigBit(x, h) = 0

BigOdd(x) == x[1] % 2 = 1

\* x / 2^s rounded to the nearest natural number, a tie to the even one
RoundShift(x, s) ==
    IF s = 0 THEN x
    ELSE LET q      == BigShiftRight(x, s)
             half   == BigBit(x, s - 1) = 1
             sticky == \E i \in 0 .. s - 2 : BigBit(x, i) = 1
         IN  IF half /\ (sticky \/ BigOdd(q)) THEN BigAddSmall(q, 1) ELSE q

Dyadic(m, e) == [m |-> m, e |-> e]

\* the float nearest to m / 2^e
RoundFloat(m, e) ==
    LET len == BigBitLength(m)
    IN  IF len <= Precision THEN Dyadic(m, e)
        ELSE Dyadic(RoundShift(m, len - Precision), e - (len - Precision))

(* A confidence level is the float a caller writes: the literal k/100      *)
(* ("percent"), or the power of two 2^-j ("pow2").                         *)
PercentLiteral(k) == [tag |-> "percent", k |-> k]
Pow2Literal(j) == [tag |-> "pow2", k |-> j]

\* the float nearest to k / 100, 0 <= k <= 100
FloatOfPercent(k) ==
    IF k = 0 THEN Dyadic(BigZero, 0)
    ELSE LET j   == CHOOSE i \in 0 .. 7 :
                        /\ k * Pow2(i) >= 100
                        /\ \A h \in 0 .. i - 1 : k * Pow2(h) < 100
             e   == Precision - 1 + j
             num == BigShiftLeft(BigFromInt(k), e)
             q   == BigDivSmall(num, 100)
             r   == BigModSmall(num, 100)
         IN  IF 2 * r > 100 \/ (2 * r = 100 /\ BigOdd(q))
             THEN Dyadic(BigAddSmall(q, 1), e) ELSE Dyadic(q, e)

FloatOf(c) ==
    IF c.tag = "percent" THEN FloatOfPercent(c.k) ELSE Dyadic(BigFromInt(1), c.k)

\* 1 - x in float arithmetic, 0 <= x <= 1
OneMinus(x) == RoundFloat(BigSub(BigShiftLeft(BigFromInt(1), x.e), x.m), x.e)

\* x * n in float arithmetic, n a small natural number
TimesLen(x, n) == RoundFloat(BigMulSmall(x.m, n), x.e)

\* int(x), x >= 0
IntOf(x) == BigToInt(BigShiftRight(x.m, x.e))

\* line 299: int((1 - confidence_level) * len(returns_sorted))
VarIndex(confidence_level, n) == IntOf(TimesLen(OneMinus(FloatOf(confidence_level)), n))

\* sorted(seq) of numbers: equal elements keep their order
RankIn(seq, i) ==
    Cardinality({j \in 1 .. Len(seq) :
                    Less(seq[j], seq[i]) \/ (seq[j] = seq[i] /\ j < i)})
Sorted(seq) ==
    [p \in 1 .. Len(seq) |-> seq[CHOOSE i \in 1 .. Len(seq) : RankIn(seq, i) = p - 1]]

\* not returns
Falsy(returns) == returns = PyNone \/ returns.items = <<>>

MinObservations == 10
DefaultConfidence == PercentLiteral(95)

\* len(returns) < 10
FewerThan(n, k) == n < k

\* returns_sorted[var_index] raises IndexError past the end of the list
IndexRaises(seq, index) == index >= Len(seq)

calculate_var(returns, confidence_level) ==
    IF Falsy(returns) \/ FewerThan(Len(returns.items), MinObservations)
    THEN ErrorOnly("Insufficient return data for VaR calculation")
    ELSE IF ~AllNum(returns.items)
    THEN ErrorOnly("VaR calculation error")
    ELSE LET returns_sorted == Sorted(returns.items)
             var_index      == VarIndex(confidence_level, Len(returns_sorted))
         IN  IF IndexRaises(returns_sorted, var_index)
             THEN ErrorOnly("VaR calculation error")
             ELSE [key \in {"var_95", "confidence_level", "worst_case_scenario",
                            "best_case_scenario", "average_return"} |->
                     CASE key = "var_95" -> returns_sorted[var_index + 1]
                       [] key = "confidence_level" -> confidence_level
                       [] key = "worst_case_scenario" -> Min(returns_sorted)
                       [] key = "best_case_scenario" -> Max(returns_sorted)
                       [] key = "average_return" ->
                            Div(Sum(returns.items), Int2Num(Len(returns.items)))]

(* Inputs: return lists of up to MaxRet observations, in hundredths, some  *)
(* with repeated values, in several orders; the ten returns of the         *)
(* documented example in each rotation; lists holding a None; no list.     *)
(* Confidence levels written as hundredths, or as a power of two, or left  *)
(* to the default.                                                         *)
MaxRet == 12

Spread == MaxRet + 1

Series(n, lo, step, mod) == [i \in 1 .. n |-> Int2Num(lo + ((i * step) % mod))]

SeriesLists ==
    {Series(n, lo, step, mod) :
        n \in 0 .. MaxRet, lo \in {-5, 1}, step \in {1, 3, 5}, mod \in {1, 2, 3, Spread}}

ExampleReturns ==
    <<Int2Num(-5), Int2Num(-3), Int2Num(-1), Int2Num(0), Int2Num(1),
      Int2Num(2), Int2Num(3), Int2Num(4), Int2Num(5), Int2Num(6)>>

Rotated(seq, r) == [i \in 1 .. Len(seq) |-> seq[((i + r - 1) % Len(seq)) + 1]]

ExampleLists == {Rotated(ExampleReturns, r) : r \in 0 .. 9}

HoledLists ==
    {[i \in 1 .. n |-> IF i = k THEN PyNone ELSE Int2Num(i)] :
        n \in {MinObservations - 1, MinObservations}, k \in {1, MinObservations - 1}}

ReturnLists ==
    {PyNone} \cup {PyList(items) : items \in SeriesLists \cup ExampleLists \cup HoledLists}

PercentSteps == {0, 1, 99, 100} \cup {5 * i : i \in 1 .. 19}

ConfidenceLevels ==
    {PercentLiteral(k) : k \in PercentSteps}
        \cup {Pow2Literal(j) : j \in {1, 2, 52, 53, 54, 60}}

VarArgs ==
    {[returns |-> r, confidence_level |-> c] : r \in ReturnLists, c \in ConfidenceLevels}
        \cup {[returns |-> r] : r \in ReturnLists}

InitVar ==
    /\ call = "calculate_var"
    /\ args \in VarArgs
    /\ ret = EmptyDict
    /\ pc = "start"
    /\ heap = <<>>
    /\ frame = <<>>

CallVar ==
    /\ pc = "start"
    /\ call = "calculate_var"
    /\ ret' = calculate_var(args.returns, Get(args, "confidence_level", DefaultConfidence))
    /\ pc' = "done"
    /\ UNCHANGED <<call, args, heap, frame>>

SpecVar == InitVar /\ [][CallVar]_vars

(***************************************************************************)
(* Claims about calculate_var.                                             *)
(***************************************************************************)
VarDone == call = "calculate_var" /\ pc = "done"

Observations == IF args.returns = PyNone THEN <<>> ELSE args.returns.items
NObservations == Len(Observations)
Confidence == Get(args, "confidence_level", DefaultConfidence)

\* the confidence level lies strictly between 0 and 1
ConfidenceInside ==
    IF Confidence.tag = "percent" THEN Confidence.k \in 1 .. 99 ELSE Confidence.k >= 1

\* C8: fewer than 10 observations (an empty or missing list included) give
\* the insufficient-data error and no VaR figure, whatever the confidence
\* level; 10 or more numeric observations with a confidence level strictly
\* between 0 and 1 give no error.
C8_VarErrorIffFewerThanTen ==
    VarDone =>
        /\ NObservations < 10 =>
              ret = ErrorOnly("Insufficient return data for VaR calculation")
        /\ (NObservations >= 10 /\ AllNum(Observations) /\ ConfidenceInside) =>
              ~Has("error")

\* floor((1 - c) x n) for a confidence level c written as k hundredths
FloorIndex(k, n) == ((100 - k) * n) \div 100

\* C9: for n >= 10 numeric observations and a confidence level c strictly
\* between 0 and 1 (written as hundredths), var_95 is the element at index
\* floor((1 - c) x n) of the returns sorted ascending, worst_case_scenario the
\* minimum, best_case_scenario the maximum and average_return the arithmetic
\* mean of all returns; the result is the one the sorted list yields, so the
\* order of the input does not matter; the ten documented returns with
\* c = 0.95 give -0.05.
C9_VarAtFloorIndex ==
    (/\ VarDone /\ NObservations >= 10 /\ AllNum(Observations)
     /\ Confidence.tag = "percent" /\ ConfidenceInside) =>
        /\ ~Has("error")
        /\ ret["var_95"] = Sorted(Observations)[FloorIndex(Confidence.k, NObservations) + 1]
        /\ \A i \in 1 .. NObservations :
              /\ ~Less(Observations[i], ret["worst_case_scenario"])
              /\ ~Less(ret["best_case_scenario"], Observations[i])
        /\ \E i \in 1 .. NObservations : Observations[i] = ret["worst_case_scenario"]
        /\ \E i \in 1 .. NObservations : Observations[i] = ret["best_case_scenario"]
        /\ Mul(ret["average_return"], Int2Num(NObservations)) = Sum(Observations)
        /\ ret = calculate_var(PyList(Sorted(Observations)), Confidence)
        /\ (Observations \in ExampleLists /\ Confidence = PercentLiteral(95)) =>
              ret["var_95"] = Int2Num(-5)

(***************************************************************************)
(* RiskCalculatorTool.assess_portfolio_risk.                               *)
(*                                                                         *)
(* risk_assessment is the dict the function fills in place; a lookup on a  *)
(* missing stock_data, or a comparison of None with a number, raises, and  *)
(* the handler then adds the error key to the dict as filled so far.       *)
(***************************************************************************)
One == Int2Num(1)
BaseScore == Int2Num(5)
VolatilityLimit == Num(3, 10)
HighBeta == Num(3, 2)
LowBeta == Num(1, 2)
DefaultBeta == Int2Num(1)
DebtLimit == Int2Num(100)
LowScore == Int2Num(3)
MediumScore == Int2Num(6)

NewAssessment ==
    [overall_risk |-> "Medium", risk_factors |-> <<>>,
     risk_score |-> BaseScore, recommendations |-> <<>>]

\* x > y
AtOrAbove(x, y) == ~Less(x, y)
Exceeds(x, y) == Less(y, x)

\* risk_assessment["risk_factors"].append(factor)
PrependFactor(ra, factor) == Put(ra, "risk_factors", <<factor>> \o ra["risk_factors"])
AppendFactor(ra, factor) == Put(ra, "risk_factors", Append(ra["risk_factors"], factor))

\* risk_assessment["risk_score"] += 1
AddTwoPoints(ra) == Put(ra, "risk_score", Add(ra["risk_score"], Int2Num(2)))
AddPoint(ra) == Put(ra, "risk_score", Add(ra["risk_score"], One))

Continue(ra) == [out |-> ra, raised |-> FALSE]

AnalyzeVolatility(st, stock_data) ==
    IF st.raised THEN st
    ELSE IF stock_data = PyNone THEN Raise(st)
    ELSE LET volatility == Get(stock_data, "volatility", Zero)
         IN  IF ~IsNum(volatility) THEN Raise(st)
             ELSE IF Exceeds(volatility, VolatilityLimit)
             THEN Continue(AddPoint(AppendFactor(st.out, "High volatility")))
             ELSE st

AnalyzeBeta(st, stock_data) ==
    IF st.raised THEN st
    ELSE LET beta == Get(stock_data, "beta", DefaultBeta)
         IN  IF ~IsNum(beta) THEN Raise(st)
             ELSE IF Exceeds(beta, HighBeta)
             THEN Continue(AddPoint(AppendFactor(st.out, "High market sensitivity")))
             ELSE IF Less(beta, LowBeta)
             THEN Continue(AppendFactor(st.out, "Low market correlation"))
             ELSE st

AnalyzeDebt(st, stock_data) ==
    IF st.raised THEN st
    ELSE LET debt_to_equity == Get(stock_data, "debt_to_equity", Zero)
         IN  IF ~IsNum(debt_to_equity) THEN Raise(st)
             ELSE IF Exceeds(debt_to_equity, DebtLimit)
             THEN Continue(AddPoint(AppendFactor(st.out, "High debt levels")))
             ELSE st

RiskLabelBelow(risk_score) ==
    IF Less(risk_score, LowScore) THEN "Low"
    ELSE IF Less(risk_score, MediumScore) THEN "Medium"
    ELSE "High"
RiskLabel(risk_score) ==
    IF ~Less(LowScore, risk_score) THEN "Low"
    ELSE IF ~Less(MediumScore, risk_score) THEN "Medium"
    ELSE "High"

DetermineLevel(st) ==
    IF st.raised THEN st
    ELSE Continue(Put(st.out, "overall_risk", RiskLabel(st.out["risk_score"])))

HighRiskRecommendations ==
    <<"Consider position sizing carefully", "Implement stop-loss strategies">>

AddRecommendationsAlways(st) ==
    IF st.raised THEN st
    ELSE Continue(Put(st.out, "recommendations",
                      st.out["recommendations"] \o HighRiskRecommendations))
AddRecommendations(st) ==
    IF st.raised THEN st
    ELSE IF st.out["overall_risk"] = "High"
    THEN Continue(Put(st.out, "recommendations",
                      st.out["recommendations"] \o HighRiskRecommendations))
    ELSE st

assess_portfolio_risk(stock_data) ==
    LET s0 == Continue(NewAssessment)
        s1 == AnalyzeVolatility(s0, stock_data)
        s2 == AnalyzeBeta(s1, stock_data)
        s3 == AnalyzeDebt(s2, stock_data)
        s4 == DetermineLevel(s3)
        s5 == AddRecommendations(s4)
    IN  IF s5.raised THEN Put(s5.out, "error", "Risk assessment error") ELSE s5.out

(* Inputs: each signal absent, None, or a number at, just below or just    *)
(* above a threshold of the code (within MaxOff steps of it), or zero, or  *)
(* negative, or the value of the documented example; or no stock_data.     *)
MaxOff == 2

Offsets == -MaxOff .. MaxOff

VolatilityValues ==
    {Num(30 + o, 100) : o \in Offsets} \cup {Num(35, 100), Zero, Num(-1, 10), PyNone}

BetaValues ==
    {Num(5 + o, 10) : o \in Offsets} \cup {Num(15 + o, 10) : o \in Offsets}
        \cup {Num(16, 10), One, Zero, Neg(One), PyNone}

DebtValues ==
    {Int2Num(100 + o) : o \in Offsets} \cup {Int2Num(120), Zero, Neg(One), PyNone}

StockData ==
    {PyNone} \cup
    UNION {{[k \in keys |-> CASE k = "volatility" -> v
                              [] k = "beta" -> b
                              [] k = "debt_to_equity" -> e] :
               v \in VolatilityValues, b \in BetaValues, e \in DebtValues} :
           keys \in SUBSET {"volatility", "beta", "debt_to_equity"}}

InitRisk ==
    /\ call = "assess_portfolio_risk"
    /\ args \in {[stock_data |-> sd] : sd \in StockData}
    /\ ret = EmptyDict
    /\ pc = "start"
    /\ heap = <<>>
    /\ frame = <<>>

CallRisk ==
    /\ pc = "start"
    /\ call = "assess_portfolio_risk"
    /\ ret' = assess_portfolio_risk(args.stock_data)
    /\ pc' = "done"
    /\ UNCHANGED <<call, args, heap, frame>>

SpecRisk == InitRisk /\ [][CallRisk]_vars

(***************************************************************************)
(* Claims about assess_portfolio_risk.                                     *)
(***************************************************************************)
RiskDone == call = "assess_portfolio_risk" /\ pc = "done"

\* stock_data is a mapping whose signals, where present, are numbers
NumericSignals ==
    /\ args.stock_data # PyNone
    /\ \A k \in DOMAIN args.stock_data : IsNum(args.stock_data[k])

Signal(key, default) == Get(args.stock_data, key, default)

\* the three scoring conditions, on the signals as fractions n / d, d > 0
VolatilityHigh == LET v == Signal("volatility", Zero) IN 10 * v.n > 3 * v.d
BetaHigh == LET b == Signal("beta", One) IN 2 * b.n > 3 * b.d
BetaLow == LET b == Signal("beta", One) IN 2 * b.n < b.d
DebtHigh == LET e == Signal("debt_to_equity", Zero) IN e.n > 100 * e.d

Count(cond) == IF cond THEN 1 ELSE 0

InList(list, item) == \E i \in 1 .. Len(list) : list[i] = item

\* C10: for signals that are numbers or absent (absent ones defaulting to
\* volatility 0, beta 1.0, debt_to_equity 0), risk_score is 5 plus the number
\* of conditions that hold among volatility > 0.3, beta > 1.5 and
\* debt_to_equity > 100, each strict; a beta below 0.5 records "Low market
\* correlation" and adds nothing to the score; volatility 0.35, beta 1.6 and
\* debt_to_equity 120 give 8.
C10_ScoreCountsConditions ==
    (RiskDone /\ NumericSignals) =>
        /\ ~Has("error")
        /\ ret["risk_score"] =
              Int2Num(5 + Count(VolatilityHigh) + Count(BetaHigh) + Count(DebtHigh))
        /\ BetaLow =>
              /\ InList(ret["risk_factors"], "Low market correlation")
              /\ ret["risk_score"] = Int2Num(5 + Count(VolatilityHigh) + Count(DebtHigh))
        /\ args.stock_data = [volatility |-> Num(35, 100), beta |-> Num(16, 10),
                              debt_to_equity |-> Int2Num(120)]
              => ret["risk_score"] = Int2Num(8)

\* a signal exactly at its threshold beside one above its threshold, and a
\* low beta: one point, with the low-correlation factor recorded
C10_Witness ==
    /\ RiskDone /\ NumericSignals
    /\ Signal("volatility", Zero) = VolatilityLimit
    /\ Signal("debt_to_equity", Zero) = Int2Num(101)
    /\ BetaLow
    /\ ret["risk_score"] = Int2Num(6)
    /\ ret["risk_factors"] = <<"Low market correlation", "High debt levels">>

\* the label the documented mapping gives a whole score
LabelOf(score) == IF score <= 3 THEN "Low" ELSE IF score <= 6 THEN "Medium" ELSE "High"

\* C11: score <= 3 gives "Low", 4 to 6 "Medium", above 6 "High", and when no
\* error occurred the returned overall_risk is the label of the returned
\* risk_score under this mapping.
C11_LabelAgreesWithScore ==
    /\ \A score \in 0 .. 10 : RiskLabel(Int2Num(score)) = LabelOf(score)
    /\ (RiskDone /\ ~Has("error")) =>
          /\ ret["risk_score"].d = 1
          /\ ret["overall_risk"] = LabelOf(ret["risk_score"].n)

\* a score on the boundary 6, still "Medium", from one triggered condition
C11_Witness ==
    /\ RiskDone /\ ~Has("error")
    /\ ret["risk_score"] = Int2Num(6)
    /\ ret["overall_risk"] = "Medium"
    /\ Len(ret["risk_factors"]) = 1

\* the factors the signals trigger, in evaluation order
ExpectedFactors ==
    (IF VolatilityHigh THEN <<"High volatility">> ELSE <<>>)
        \o (IF BetaHigh THEN <<"High market sensitivity">>
            ELSE IF BetaLow THEN <<"Low market correlation">> ELSE <<>>)
        \o (IF DebtHigh THEN <<"High debt levels">> ELSE <<>>)

\* the entries of the three-element list t at the positions in S, in order
Pick(t, S) ==
    (IF 1 \in S THEN <<t[1]>> ELSE <<>>)
        \o (IF 2 \in S THEN <<t[2]>> ELSE <<>>)
        \o (IF 3 \in S THEN <<t[3]>> ELSE <<>>)

IsSubsequence(s, t) == \E S \in SUBSET (1 .. 3) : s = Pick(t, S)

\* C12: risk_factors accumulates in the order volatility, beta, debt: it is a
\* subsequence of ["High volatility", one beta factor, "High debt levels"],
\* never holds both beta factors, and for numeric or absent signals has
\* exactly one entry per triggered condition.
C12_FactorsInEvaluationOrder ==
    RiskDone =>
        /\ \E b \in {"High market sensitivity", "Low market correlation"} :
              IsSubsequence(ret["risk_factors"],
                            <<"High volatility", b, "High debt levels">>)
        /\ ~(/\ InList(ret["risk_factors"], "High market sensitivity")
             /\ InList(ret["risk_factors"], "Low market correlation"))
        /\ NumericSignals => ret["risk_factors"] = ExpectedFactors

\* all three conditions triggered: three factors in evaluation order
C12_Witness ==
    /\ RiskDone /\ NumericSignals
    /\ ret["risk_factors"] =
          <<"High volatility", "High market sensitivity", "High debt levels">>

\* C13: recommendations is ["Consider position sizing carefully",
\* "Implement stop-loss strategies"], in this order, exactly when the label is
\* "High", and empty for every other label.
C13_RecommendationsIffHigh ==
    RiskDone =>
        /\ ret["overall_risk"] = "High" <=>
              ret["recommendations"] =
                  <<"Consider position sizing carefully", "Implement stop-loss strategies">>
        /\ ret["overall_risk"] # "High" => ret["recommendations"] = <<>>

\* both kinds of result occur: this one is the labelled-High one with exactly
\* two conditions triggered
C13_Witness ==
    /\ RiskDone /\ ret["overall_risk"] = "High"
    /\ ret["risk_score"] = Int2Num(7)
    /\ Len(ret["recommendations"]) = 2

(***************************************************************************)
(* NewsAnalysisTool.analyze_sentiment.                                     *)
(*                                                                         *)
(* A text is the sequence of its characters, so that lower(), the          *)
(* substring test `word in text_lower` and split() are computed on the     *)
(* characters as Python computes them.                                     *)
(***************************************************************************)
positive_words ==
    <<<<"g", "o", "o", "d">>,
      <<"g", "r", "e", "a", "t">>,
      <<"e", "x", "c", "e", "l", "l", "e", "n", "t">>,
      <<"s", "t", "r", "o", "n", "g">>,
      <<"p", "o", "s", "i", "t", "i", "v", "e">>,
      <<"g", "r", "o", "w", "t", "h">>,
      <<"p", "r", "o", "f", "i", "t">>,
      <<"s", "u", "c", "c", "e", "s", "s">>>>

negative_words ==
    <<<<"b", "a", "d">>,
      <<"p", "o", "o", "r">>,
      <<"w", "e", "a", "k">>,
      <<"n", "e", "g", "a", "t", "i", "v", "e">>,
      <<"d", "e", "c", "l", "i", "n", "e">>,
      <<"l", "o", "s", "s">>,
      <<"r", "i", "s", "k">>,
      <<"c", "o", "n", "c", "e", "r", "n">>>>

UpperCase == <<"A", "B", "C", "D", "E", "F", "G", "H", "I", "J", "K", "L", "M">>
    \o <<"N", "O", "P", "Q", "R", "S", "T", "U", "V", "W", "X", "Y", "Z">>
LowerCase == <<"a", "b", "c", "d", "e", "f", "g", "h", "i", "j", "k", "l", "m">>
    \o <<"n", "o", "p", "q", "r", "s", "t", "u", "v", "w", "x", "y", "z">>

\* text.lower()
LowerChar(c) ==
    IF \E i \in 1 .. Len(UpperCase) : UpperCase[i] = c
    THEN LowerCase[CHOOSE i \in 1 .. Len(UpperCase) : UpperCase[i] = c]
    ELSE c
Lower(text) == [i \in 1 .. Len(text) |-> LowerChar(text[i])]

\* the positions at which word starts in text
Occurrences(word, text) ==
    {i \in 1 .. Len(text) - Len(word) + 1 : SubSeq(text, i, i + Len(word) - 1) = word}

\* word in text
Contains(text, word) == Occurrences(word, text) # {}

\* sum(1 for word in words if word in text_lower)
CountWholeTokens(words, text_lower) ==
    Cardinality({k \in 1 .. Len(words) :
        \E i \in Occurrences(words[k], text_lower) :
            /\ (i = 1 \/ text_lower[i - 1] \in {" ", "\t"})
            /\ (i + Len(words[k]) > Len(text_lower)
                   \/ text_lower[i + Len(words[k])] \in {" ", "\t"})})
CountMatches(words, text_lower) ==
    Cardinality({k \in 1 .. Len(words) : Contains(text_lower, words[k])})

WhiteSpace == {" ", "\t"}

\* len(text.split()): the runs of characters other than whitespace
TokenCount(text) ==
    Cardinality({i \in 1 .. Len(text) :
                    /\ text[i] \notin WhiteSpace
                    /\ (i = 1 \/ text[i - 1] \in WhiteSpace)})

Tenth == Num(1, 10)
Ten == Int2Num(10)

AbsNum(x) == IF x.n < 0 THEN Neg(x) ELSE x

\* min(x, y)
MinOf(x, y) == IF Less(y, x) THEN y ELSE x

\* total_words == 0
Never(total_words) == FALSE
NoTokens(total_words) == total_words = 0

\* sentiment_score > 0.1 / sentiment_score < -0.1
ScoreAtOrAbove(x, y) == ~Less(x, y)
ScoreAbove(x, y) == Less(y, x)
ScoreBelow(x, y) == Less(x, y)

\* an exception that leaves the function
Escapes(exception) == [raised |-> exception]

analyze_sentiment(text) ==
    LET text_lower     == Lower(text)
        positive_count == CountMatches(positive_words, text_lower)
        negative_count == CountMatches(negative_words, text_lower)
        total_words    == TokenCount(text)
    IN  IF NoTokens(total_words)
        THEN [sentiment |-> "neutral", score |-> Zero, confidence |-> Zero]
        ELSE IF total_words = 0 THEN Escapes("ZeroDivisionError")
        ELSE LET sentiment_score ==
                     Div(Int2Num(positive_count - negative_count), Int2Num(total_words))
                 sentiment ==
                     IF ScoreAbove(sentiment_score, Tenth) THEN "positive"
                     ELSE IF ScoreBelow(sentiment_score, Neg(Tenth)) THEN "negative"
                     ELSE "neutral"
             IN  [sentiment |-> sentiment,
                  score |-> sentiment_score,
                  positive_indicators |-> Int2Num(positive_count),
                  negative_indicators |-> Int2Num(negative_count),
                  confidence |-> MinOf(Mul(AbsNum(sentiment_score), Ten), One)]

(* Inputs: every text of up to MaxPieces pieces, a piece being a lexicon   *)
(* word (one of them capitalised), another word, a comma, a blank or a     *)
(* tab; short texts followed by up to MaxPad further tokens; and the       *)
(* documented example.                                                     *)
MaxPieces == 4
MaxPad == 12

Pieces ==
    {<<"g", "o", "o", "d">>, <<"G", "r", "e", "a", "t">>, <<"b", "a", "d">>, <<"r", "i", "s", "k">>, <<"t", "h", "e">>, <<",">>, <<" ">>, <<"\t">>}

RECURSIVE Join(_)
Join(pieces) == IF pieces = <<>> THEN <<>> ELSE Head(pieces) \o Join(Tail(pieces))

PieceTexts == {Join(ps) : ps \in UNION {[1 .. n -> Pieces] : n \in 0 .. MaxPieces}}

RECURSIVE Padding(_)
Padding(k) == IF k = 0 THEN <<>> ELSE <<" ", "x">> \o Padding(k - 1)

PaddedTexts ==
    {head \o Padding(k) :
        head \in {<<"g", "o", "o", "d">>, <<"b", "a", "d">>, <<"g", "o", "o", "d", " ", "b", "a", "d">>, <<"g", "o", "o", "d", "g", "r", "e", "a", "t">>, <<"g", "o", "o", "d", " ", "g", "r", "e", "a", "t", " ", "b", "a", "d">>},
        k \in 0 .. MaxPad}

ExampleText ==
    <<"g", "r", "e", "a", "t", " ", "g", "r", "o", "w", "t", "h", ",", " ", "s", "t", "r", "o", "n", "g", " ", "p", "r", "o", "f", "i", "t">>

Texts == PieceTexts \cup PaddedTexts \cup {ExampleText}

InitSentiment ==
    /\ call = "analyze_sentiment"
    /\ args \in {[text |-> t] : t \in Texts}
    /\ ret = EmptyDict
    /\ pc = "start"
    /\ heap = <<>>
    /\ frame = <<>>

CallSentiment ==
    /\ pc = "start"
    /\ call = "analyze_sentiment"
    /\ ret' = analyze_sentiment(args.text)
    /\ pc' = "done"
    /\ UNCHANGED <<call, args, heap, frame>>

SpecSentiment == InitSentiment /\ [][CallSentiment]_vars

(***************************************************************************)
(* Claims about analyze_sentiment.                                         *)
(***************************************************************************)
SentimentDone == call = "analyze_sentiment" /\ pc = "done"

Text == args.text
Tokens == TokenCount(Text)

NeutralResult == [sentiment |-> "neutral", score |-> Zero, confidence |-> Zero]

\* C14: a text with zero tokens (empty, or whitespace only) returns label
\* "neutral", score 0.0 and confidence 0.0 and nothing else: the division by
\* the token count is not attempted, so no exception leaves the function.
C14_ZeroTokensNeutral ==
    (SentimentDone /\ Tokens = 0) => ret = NeutralResult

\* a text of blanks and tabs only
C14_Witness ==
    /\ SentimentDone /\ Len(Text) >= 2 /\ Tokens = 0
    /\ \E i \in 1 .. Len(Text) : Text[i] = "\t"
    /\ ret = NeutralResult

\* the occurrences in text_lower of all words of a lexicon together
PerOccurrence(words, text_lower) ==
    Cardinality({<<k, i>> \in (1 .. Len(words)) \X (1 .. Len(text_lower)) :
                    i \in Occurrences(words[k], text_lower)})

\* C15: lexicon matches are counted once per occurrence: a positive
\* (negative) lexicon word occurring k times contributes k to the positive
\* (negative) count.
C15_CountsPerOccurrence ==
    (SentimentDone /\ Tokens >= 1) =>
        /\ ret["positive_indicators"] = Int2Num(PerOccurrence(positive_words, Lower(Text)))
        /\ ret["negative_indicators"] = Int2Num(PerOccurrence(negative_words, Lower(Text)))

\* C16 as amended: "great growth, strong profit" counts 4 positive hits and 0
\* negative hits over a token count of 4, giving score 1.0, label "positive"
\* and confidence 1.0.
C16_ExampleFourHits ==
    (SentimentDone /\ Text = ExampleText) =>
        /\ ret["positive_indicators"] = Int2Num(4)
        /\ ret["negative_indicators"] = Zero
        /\ Tokens = 4
        /\ ret["score"] = One
        /\ ret["sentiment"] = "positive"
        /\ ret["confidence"] = One

C16_Witness ==
    /\ SentimentDone /\ Text = ExampleText
    /\ ret["score"] = One /\ ret["positive_indicators"] = Int2Num(4)

\* C16 as stated: "great growth, strong profit" counts 3 positive hits and 0
\* negative hits over a token count of 3, giving score 1.0, label "positive"
\* and confidence 1.0.
C16_ExampleThreeHits ==
    (SentimentDone /\ Text = ExampleText) =>
        /\ ret["positive_indicators"] = Int2Num(3)
        /\ ret["negative_indicators"] = Zero
        /\ Tokens = 3
        /\ ret["score"] = One
        /\ ret["sentiment"] = "positive"
        /\ ret["confidence"] = One

\* C17: for a text of at least one token, score = (positive count - negative
\* count) / token count; the label is "positive" iff score > 0.1, "negative"
\* iff score < -0.1 and "neutral" otherwise, 0.1 and -0.1 being neutral;
\* confidence = min(|score| x 10, 1.0), which lies in [0, 1].
C17_ScoreLabelConfidence ==
    (SentimentDone /\ Tokens >= 1) =>
        LET diff  == ret["positive_indicators"].n - ret["negative_indicators"].n
            score == ret["score"]
            conf  == ret["confidence"]
        IN  /\ score.d > 0 /\ score.n * Tokens = diff * score.d
            /\ ret["sentiment"] = "positive" <=> 10 * diff > Tokens
            /\ ret["sentiment"] = "negative" <=> 10 * diff < -Tokens
            /\ ret["sentiment"] = "neutral" <=> (10 * diff <= Tokens /\ 10 * diff >= -Tokens)
            /\ conf.d > 0 /\ 0 <= conf.n /\ conf.n <= conf.d
            /\ IF 10 * Abs(diff) >= Tokens THEN conf = One
               ELSE conf.n * Tokens = 10 * Abs(diff) * conf.d

\* one positive hit in ten tokens: the score is exactly 0.1 and the label
\* neutral
C17_Witness ==
    /\ SentimentDone /\ Tokens = 10
    /\ ret["score"] = Tenth
    /\ ret["sentiment"] = "neutral"
    /\ ret["confidence"] = One

\* C18: the score lies between -1 and 1 for every text: the absolute
\* difference of the positive and negative counts never exceeds the token
\* count.
C18_ScoreBounded ==
    SentimentDone =>
        /\ Abs(ret["score"].n) <= ret["score"].d
        /\ Tokens >= 1 =>
              Abs(ret["positive_indicators"].n - ret["negative_indicators"].n) <= Tokens

(***************************************************************************)
(* StockDataTool.get_stock_info (stock_tools.py) and                       *)
(* StockDataFetcher.get_stock_info (simple_stock_crew.py).                 *)
(*                                                                         *)
(* The provider (yfinance) is the environment: creating the Ticker may     *)
(* raise, its info may be None or a payload dict, and its price history    *)
(* may raise, be empty, or hold a first and a last Close.                  *)
(***************************************************************************)
\* a Python str
Str(s) == [tag |-> "str", s |-> s]

NotAvailable == Str("N/A")

Field(name, key, default) == [name |-> name, key |-> key, default |-> default]

\* the fields of the StockDataTool record read from info, lines 33-47
ToolFields ==
    <<Field("company_name", "longName", NotAvailable),
      Field("sector", "sector", NotAvailable),
      Field("industry", "industry", NotAvailable),
      Field("market_cap", "marketCap", Zero),
      Field("current_price", "currentPrice", Zero),
      Field("previous_close", "previousClose", Zero),
      Field("day_high", "dayHigh", Zero),
      Field("day_low", "dayLow", Zero),
      Field("volume", "volume", Zero),
      Field("pe_ratio", "trailingPE", Zero),
      Field("forward_pe", "forwardPE", Zero),
      Field("dividend_yield", "dividendYield", Zero),
      Field("beta", "beta", Zero),
      Field("52_week_high", "fiftyTwoWeekHigh", Zero),
      Field("52_week_low", "fiftyTwoWeekLow", Zero)>>

\* the fields of the StockDataFetcher record read from info, lines 80-89
FetcherFields ==
    <<Field("company_name", "longName", NotAvailable),
      Field("current_price", "currentPrice", Zero),
      Field("market_cap", "marketCap", Zero),
      Field("pe_ratio", "trailingPE", Zero),
      Field("sector", "sector", NotAvailable),
      Field("industry", "industry", NotAvailable),
      Field("beta", "beta", Zero),
      Field("dividend_yield", "dividendYield", Zero),
      Field("52_week_high", "fiftyTwoWeekHigh", Zero),
      Field("52_week_low", "fiftyTwoWeekLow", Zero)>>

FieldNames(fields) == {fields[i].name : i \in 1 .. Len(fields)}
FieldOf(fields, name) == fields[CHOOSE i \in 1 .. Len(fields) : fields[i].name = name]

\* info.get(key, default): the default stands in for an absent key only
InfoGet(info, key, default) == Get(info, key, default)

\* the dict literal of the return statement, apart from year_performance
QuoteRecord(symbol, info, fields) ==
    [name \in {"symbol"} \cup FieldNames(fields) |->
        IF name = "symbol" THEN symbol
        ELSE InfoGet(info, FieldOf(fields, name).key, FieldOf(fields, name).default)]

\* info.get on an info that is None raises AttributeError
AlwaysReadable(info) == FALSE
Unreadable(info) == info = PyNone

get_stock_info(symbol, provider) ==
    IF provider.ticker_raises \/ Unreadable(provider.info)
    THEN ErrorOnly("Failed to fetch stock info")
    ELSE QuoteRecord(symbol, provider.info, ToolFields)

\* f"{x:.2f}" of a number that is not half way between two hundredths
TwoDigits(i) == IF i < 10 THEN "0" \o ToString(i) ELSE ToString(i)
Format2(x) ==
    LET a      == Abs(x.n)
        floor  == (a * 100) \div x.d
        up     == 2 * ((a * 100) % x.d) > x.d
        h      == IF up THEN floor + 1 ELSE floor
    IN  (IF x.n < 0 THEN "-" ELSE "")
            \o ToString(h \div 100) \o "." \o TwoDigits(h % 100)

\* line 90: the change from the first to the last Close, in percent
YearPerformance(history) ==
    IF history.kind = "empty" THEN NotAvailable
    ELSE Str(Format2(Mul(Sub(Div(history.last, history.first), One), Hundred)) \o "%")

fetcher_get_stock_info(symbol, provider) ==
    IF provider.ticker_raises \/ provider.history.kind = "raises"
          \/ Unreadable(provider.info)
    THEN ErrorOnly("Failed to fetch data")
    ELSE Put(QuoteRecord(symbol, provider.info, FetcherFields),
             "year_performance", YearPerformance(provider.history))

(* Inputs: payloads in which up to MaxMissing keys, or all but that many,  *)
(* are absent, and up to MaxMissing keys, or all, are present with None;   *)
(* a provider that raises; an info of None; each kind of history.          *)
MaxMissing == 1

StringKeys == {"longName", "sector", "industry"}
InfoKeys == {ToolFields[i].key : i \in 1 .. Len(ToolFields)}

FewKeys == {S \in SUBSET InfoKeys : Cardinality(S) <= MaxMissing}
AbsentSets == FewKeys \cup {InfoKeys \ S : S \in FewKeys}
NullSets == FewKeys \cup {InfoKeys}

Payload(absent, null) ==
    [k \in InfoKeys \ absent |->
        IF k \in null THEN PyNone
        ELSE IF k \in StringKeys THEN Str("Acme Corp") ELSE Int2Num(7)]

Payloads == {Payload(a, n) : a \in AbsentSets, n \in NullSets}

History(kind, first, last) == [kind |-> kind, first |-> first, last |-> last]
NoHistory(kind) == History(kind, Zero, Zero)

Histories ==
    {NoHistory("raises"), NoHistory("empty"),
     History("rows", Int2Num(100), Int2Num(125)), History("rows", Int2Num(3), Int2Num(2))}

Provider(ticker_raises, info, history) ==
    [ticker_raises |-> ticker_raises, info |-> info, history |-> history]

Providers(histories) ==
    {Provider(FALSE, info, h) : info \in Payloads \cup {PyNone}, h \in histories}
        \cup {Provider(TRUE, PyNone, NoHistory("raises"))}

Symbols == {Str("AAPL")}

InitQuote ==
    /\ \/ /\ call = "StockDataTool.get_stock_info"
          /\ args \in {[symbol |-> sy, provider |-> p] :
                          sy \in Symbols, p \in Providers({NoHistory("empty")})}
       \/ /\ call = "StockDataFetcher.get_stock_info"
          /\ args \in {[symbol |-> sy, provider |-> p] :
                          sy \in Symbols, p \in Providers(Histories)}
    /\ ret = EmptyDict
    /\ pc = "start"
    /\ heap = <<>>
    /\ frame = <<>>

CallToolQuote ==
    /\ pc = "start"
    /\ call = "StockDataTool.get_stock_info"
    /\ ret' = get_stock_info(args.symbol, args.provider)
    /\ pc' = "done"
    /\ UNCHANGED <<call, args, heap, frame>>

CallFetcherQuote ==
    /\ pc = "start"
    /\ call = "StockDataFetcher.get_stock_info"
    /\ ret' = fetcher_get_stock_info(args.symbol, args.provider)
    /\ pc' = "done"
    /\ UNCHANGED <<call, args, heap, frame>>

SpecQuote == InitQuote /\ [][CallToolQuote \/ CallFetcherQuote]_vars

(***************************************************************************)
(* Claims about get_stock_info.                                            *)
(***************************************************************************)
QuoteDone ==
    /\ call \in {"StockDataTool.get_stock_info", "StockDataFetcher.get_stock_info"}
    /\ pc = "done"

QuoteFields ==
    IF call = "StockDataTool.get_stock_info" THEN ToolFields ELSE FetcherFields

Info == args.provider.info

\* the payload lacks a value for key: the key is absent, or present with None
Missing(key) == key \notin DOMAIN Info \/ Info[key] = PyNone

\* C19: every numeric field missing from the payload becomes 0, every
\* missing string field "N/A", whether the key is absent or present with a
\* null value, and no field of the returned record is null.
C19_MissingFieldsDefaulted ==
    (QuoteDone /\ ~Has("error")) =>
        /\ \A i \in 1 .. Len(QuoteFields) :
              Missing(QuoteFields[i].key) =>
                  ret[QuoteFields[i].name] =
                      (IF QuoteFields[i].key \in StringKeys THEN Str("N/A") ELSE Int2Num(0))
        /\ \A name \in DOMAIN ret : ret[name] # PyNone

\* the provider failed: the Ticker or the history raised, or info is None
ProviderFailed ==
    \/ args.provider.ticker_raises
    \/ Info = PyNone
    \/ (call = "StockDataFetcher.get_stock_info" /\ args.provider.history.kind = "raises")

\* C20: no exception leaves get_stock_info: every failure of the provider
\* yields the mapping whose only key is error, and no result holds error
\* beside record fields.
C20_FailureIsErrorOnly ==
    QuoteDone =>
        /\ ProviderFailed => DOMAIN ret = {"error"}
        /\ Has("error") => DOMAIN ret = {"error"}
        /\ ~ProviderFailed => (~Has("error") /\ ret["symbol"] = args.symbol)

\* the provider returned no info at all
C20_Witness ==
    /\ QuoteDone /\ ~args.provider.ticker_raises /\ Info = PyNone
    /\ DOMAIN ret = {"error"}

(***************************************************************************)
(* The four calculation methods together: one call of any of them, on any  *)
(* of the inputs above.                                                    *)
(***************************************************************************)
InitTools == InitRatios \/ InitIndicators \/ InitVar \/ InitRisk

NextTools == CallRatios \/ CallIndicators \/ CallVar \/ CallRisk

SpecTools == InitTools /\ [][NextTools]_vars

ToolsDone == pc = "done"

\* inputs that make the method fail: a missing or null container, a null
\* value that is compared or added, a zero divisor, an index past the end
RatiosFail ==
    /\ call = "calculate_financial_ratios"
    /\ \/ args.financial_data = PyNone
       \/ \E sec \in {"income_statement", "balance_sheet", "stock_info"} :
              /\ sec \in DOMAIN args.financial_data
              /\ args.financial_data[sec] = PyNone
       \/ FactOf("income_statement", "total_revenue") = PyNone

IndicatorsFail ==
    /\ call = "calculate_technical_indicators"
    /\ \/ NPrices < 2
       \/ NPrices >= 10 /\ Prices[NPrices - 9] = Zero
       \/ NPrices >= 20 /\ \E i \in 1 .. NPrices - 1 : Prices[i] = Zero
       \/ NPrices >= 20 /\ \E i \in NPrices - 19 .. NPrices : Prices[i] = PyNone

VarFail ==
    /\ call = "calculate_var"
    /\ \/ NObservations < 10
       \/ ~AllNum(Observations)
       \/ Confidence = PercentLiteral(0)

RiskFail ==
    /\ call = "assess_portfolio_risk"
    /\ \/ args.stock_data = PyNone
       \/ \E k \in DOMAIN args.stock_data : args.stock_data[k] = PyNone

\* C21: calculate_financial_ratios, calculate_technical_indicators,
\* calculate_var and assess_portfolio_risk return a mapping for every input,
\* whether values are missing, zero, negative or null: nothing is raised into
\* the caller.  A failure (a zero price used as divisor, a confidence level
\* of 0, a null value or container) puts the error key into the mapping, and a
\* mapping without the error key holds no null.
C21_FailuresAreErrorKeys ==
    ToolsDone =>
        /\ ~Has("raised")
        /\ (RatiosFail \/ IndicatorsFail \/ VarFail \/ RiskFail) => Has("error")
        /\ ~Has("error") =>
              \A k \in DOMAIN ret \ {"overall_risk", "risk_factors", "recommendations"} :
                  ret[k] # PyNone

\* a confidence level of 0 on ten or more returns: the index is past the end
C21_Witness ==
    /\ ToolsDone /\ call = "calculate_var"
    /\ NObservations >= 10 /\ AllNum(Observations)
    /\ Confidence = PercentLiteral(0)
    /\ ret = ErrorOnly("VaR calculation error")

(***************************************************************************)
(* Repeated and interleaved calls on the same tool objects.                *)
(*                                                                         *)
(* heap is the sequence of objects: first the three tool objects with the  *)
(* fields __init__ gives them, then every dict a call creates.  An object  *)
(* is known by its position.  Each caller runs one call at a time, step by *)
(* step; the steps of the two callers interleave.  frame[c] holds the      *)
(* locals of caller c's call: self, the dict being filled, and whether an  *)
(* exception is on its way to the except clause; code names the method.   *)
(* ret[c] lists what the calls of caller c returned.                       *)
(***************************************************************************)
Callers == {1, 2}

Tool(name, description) == [name |-> name, description |-> description]

Tools ==
    <<Tool("Financial Calculator",
           "Performs financial calculations, ratio analysis, and valuation metrics"),
      Tool("News Analyzer",
           "Analyzes news sentiment and identifies market-moving events"),
      Tool("Risk Calculator",
           "Calculates various risk metrics and assessments")>>

Methods ==
    {"calculate_financial_ratios", "calculate_technical_indicators",
     "calculate_var", "assess_portfolio_risk", "analyze_sentiment"}

\* the object a method is called on
SelfOf(method) ==
    CASE method \in {"calculate_financial_ratios", "calculate_technical_indicators"} -> 1
      [] method = "analyze_sentiment" -> 2
      [] method \in {"calculate_var", "assess_portfolio_risk"} -> 3

\* the method run on its own
RunAlone(method, a) ==
    CASE method = "calculate_financial_ratios" -> calculate_financial_ratios(a.financial_data)
      [] method = "calculate_technical_indicators" ->
            calculate_technical_indicators(a.price_data)
      [] method = "calculate_var" -> calculate_var(a.returns, a.confidence_level)
      [] method = "assess_portfolio_risk" -> assess_portfolio_risk(a.stock_data)
      [] method = "analyze_sentiment" -> analyze_sentiment(a.text)

NoFrame == [code |-> "none", self |-> 0, local |-> 0, raised |-> FALSE]

Frame(code, self, local, raised) ==
    [code |-> code, self |-> self, local |-> local, raised |-> raised]

\* a dict display ({} or {...}) creates a new object
CarryOver(objects, initial) ==
    LET earlier == {i \in 1 .. Len(objects) : DOMAIN objects[i] = DOMAIN initial}
    IN  IF earlier = {} THEN Append(objects, initial)
        ELSE Append(objects, objects[CHOOSE i \in earlier : \A j \in earlier : j <= i])
CreateLocal(objects, initial) == Append(objects, initial)

\* the locals of caller c's call
SharedFrame(frames, c) ==
    LET same == {d \in Callers : frames[d].code = frames[c].code /\ frames[d].local # 0}
    IN  IF same = {} THEN frames[c]
        ELSE frames[CHOOSE d \in same : \A e \in same : d <= e]
OwnFrame(frames, c) == frames[c]

MaxCalls == 2

CallInputs(method) ==
    CASE method = "calculate_financial_ratios" ->
            {[financial_data |->
                [income_statement |->
                    [total_revenue |-> Int2Num(2), gross_profit |-> Int2Num(1),
                     net_income |-> PyNone]]]}
      [] method = "calculate_technical_indicators" ->
            {[price_data |-> PyList([i \in 1 .. 11 |-> Int2Num(i)])]}
      [] method = "calculate_var" ->
            {[returns |-> PyList(ExampleReturns), confidence_level |-> DefaultConfidence]}
      [] method = "assess_portfolio_risk" ->
            {[stock_data |-> [volatility |-> Num(35, 100), beta |-> Num(16, 10),
                              debt_to_equity |-> Int2Num(120)]],
             [stock_data |-> [volatility |-> Num(35, 100), beta |-> PyNone]]}
      [] method = "analyze_sentiment" -> {[text |-> ExampleText]}

InitCalls ==
    /\ call = [c \in Callers |-> "none"]
    /\ args = [c \in Callers |-> EmptyDict]
    /\ ret = [c \in Callers |-> <<>>]
    /\ pc = [c \in Callers |-> "idle"]
    /\ heap = Tools
    /\ frame = [c \in Callers |-> NoFrame]

Started ==
    Len(ret[1]) + Len(ret[2]) + Cardinality({c \in Callers : pc[c] # "idle"})

\* caller c calls a method
Invoke(c) ==
    /\ pc[c] = "idle"
    /\ Started < MaxCalls
    /\ \E method \in Methods : \E a \in CallInputs(method) :
          /\ call' = [call EXCEPT ![c] = method]
          /\ args' = [args EXCEPT ![c] = a]
          /\ frame' = [frame EXCEPT ![c] = Frame(method, SelfOf(method), 0, FALSE)]
    /\ pc' = [pc EXCEPT ![c] = "enter"]
    /\ UNCHANGED <<ret, heap>>

\* the first statement: ratios = {} (line 130), indicators = {} (line 187),
\* risk_assessment = {...} (lines 314-319); calculate_var and
\* analyze_sentiment create no dict before their return statement
Enter(c) ==
    /\ pc[c] = "enter"
    /\ LET f == OwnFrame(frame, c)
           initial == IF call[c] = "assess_portfolio_risk" THEN NewAssessment
                      ELSE EmptyDict
       IN  IF call[c] \in {"calculate_var", "analyze_sentiment"}
           THEN /\ pc' = [pc EXCEPT ![c] = "result"]
                /\ UNCHANGED <<heap, frame>>
           ELSE /\ heap' = CreateLocal(heap, initial)
                /\ frame' = [frame EXCEPT ![c] = Frame(f.code, f.self, Len(heap'), FALSE)]
                /\ pc' = [pc EXCEPT ![c] =
                            IF call[c] = "assess_portfolio_risk" THEN "volatility"
                            ELSE "body"]
    /\ UNCHANGED <<call, args, ret>>

\* calculate_var, analyze_sentiment: the dict of the return statement
Result(c) ==
    /\ pc[c] = "result"
    /\ LET f == OwnFrame(frame, c)
       IN  /\ heap' = CreateLocal(heap, RunAlone(call[c], args[c]))
           /\ frame' = [frame EXCEPT ![c] = Frame(f.code, f.self, Len(heap'), FALSE)]
    /\ pc' = [pc EXCEPT ![c] = "return"]
    /\ UNCHANGED <<call, args, ret>>

\* calculate_financial_ratios, calculate_technical_indicators: the try body
\* stores into the dict of the first statement; the except clause of the
\* ratios stores the error there too, that of the indicators returns a new
\* dict
Body(c) ==
    /\ pc[c] = "body"
    /\ LET f == OwnFrame(frame, c)
           out == RunAlone(call[c], args[c])
       IN  IF call[c] = "calculate_technical_indicators" /\ "error" \in DOMAIN out
           THEN /\ heap' = CreateLocal(heap, out)
                /\ frame' = [frame EXCEPT ![c] = Frame(f.code, f.self, Len(heap'), FALSE)]
           ELSE /\ heap' = [heap EXCEPT ![f.local] = out @@ heap[f.local]]
                /\ UNCHANGED frame
    /\ pc' = [pc EXCEPT ![c] = "return"]
    /\ UNCHANGED <<call, args, ret>>

RiskSteps == <<"volatility", "beta", "debt", "level", "recommendations", "except">>

StepAfter(step) == RiskSteps[1 + CHOOSE i \in 1 .. Len(RiskSteps) - 1 : RiskSteps[i] = step]

\* assess_portfolio_risk: one statement group of the try body, on the dict
\* of this call
RiskStep(c) ==
    /\ call[c] = "assess_portfolio_risk"
    /\ pc[c] \in {"volatility", "beta", "debt", "level", "recommendations"}
    /\ LET f  == OwnFrame(frame, c)
           st == [out |-> heap[f.local], raised |-> f.raised]
           nx == CASE pc[c] = "volatility" -> AnalyzeVolatility(st, args[c].stock_data)
                   [] pc[c] = "beta" -> AnalyzeBeta(st, args[c].stock_data)
                   [] pc[c] = "debt" -> AnalyzeDebt(st, args[c].stock_data)
                   [] pc[c] = "level" -> DetermineLevel(st)
                   [] pc[c] = "recommendations" -> AddRecommendations(st)
       IN  /\ heap' = [heap EXCEPT ![f.local] = nx.out]
           /\ frame' = [frame EXCEPT ![c] = Frame(f.code, f.self, f.local, nx.raised)]
    /\ pc' = [pc EXCEPT ![c] = StepAfter(pc[c])]
    /\ UNCHANGED <<call, args, ret>>

\* assess_portfolio_risk: the except clause, lines 359-360
RiskExcept(c) ==
    /\ call[c] = "assess_portfolio_risk"
    /\ pc[c] = "except"
    /\ LET f == OwnFrame(frame, c)
       IN  heap' = IF f.raised
                   THEN [heap EXCEPT ![f.local] =
                            Put(heap[f.local], "error", "Risk assessment error")]
                   ELSE heap
    /\ pc' = [pc EXCEPT ![c] = "return"]
    /\ UNCHANGED <<call, args, ret, frame>>

\* the return statement hands the dict to the caller
Return(c) ==
    /\ pc[c] = "return"
    /\ LET f == OwnFrame(frame, c)
       IN  ret' = [ret EXCEPT ![c] =
                      Append(ret[c], [call |-> call[c], args |-> args[c],
                                      result |-> heap[f.local]])]
    /\ frame' = [frame EXCEPT ![c] = NoFrame]
    /\ pc' = [pc EXCEPT ![c] = "idle"]
    /\ UNCHANGED <<call, args, heap>>

NextCalls ==
    \E c \in Callers :
        \/ Invoke(c)
        \/ Enter(c)
        \/ Result(c)
        \/ Body(c)
        \/ RiskStep(c)
        \/ RiskExcept(c)
        \/ Return(c)

SpecCalls == InitCalls /\ [][NextCalls]_vars

(***************************************************************************)
(* Claims about repeated and interleaved calls.                            *)
(***************************************************************************)
\* what the calls made so far returned
Returned == UNION {{ret[c][i] : i \in 1 .. Len(ret[c])} : c \in Callers}

\* C22: calls of calculate_financial_ratios, calculate_technical_indicators,
\* calculate_var, assess_portfolio_risk and analyze_sentiment on the same tool
\* objects with identical inputs return identical output every time; the
\* risk_factors, recommendations and risk_score of assess_portfolio_risk are
\* new in each call: at most three factors, two recommendations and three
\* points above the base score, however many calls came before.
C22_SameInputsSameOutput ==
    /\ \A r1 \in Returned : \A r2 \in Returned :
          (r1.call = r2.call /\ r1.args = r2.args) => r1.result = r2.result
    /\ \A r \in Returned :
          r.call = "assess_portfolio_risk" =>
              /\ Len(r.result["risk_factors"]) <= 3
              /\ Len(r.result["recommendations"]) <= 2
              /\ r.result["risk_score"].n <= 8 * r.result["risk_score"].d
    /\ \A i \in 1 .. Len(Tools) : heap[i] = Tools[i]

\* the same caller has made the same risk assessment twice, each scoring 8
\* with three factors
C22_Witness ==
    /\ Len(ret[1]) = 2
    /\ \A i \in 1 .. 2 :
          /\ ret[1][i].call = "assess_portfolio_risk"
          /\ ret[1][i].args = ret[1][1].args
          /\ ret[1][i].result["risk_score"] = Int2Num(8)
          /\ Len(ret[1][i].result["risk_factors"]) = 3

\* C23: when two callers interleave calls of assess_portfolio_risk,
\* calculate_financial_ratios, calculate_var or analyze_sentiment on the same
\* tool objects, each call returns exactly what it returns when run alone.
C23_InterleavedAsAlone ==
    \A r \in Returned :
        r.call \in {"assess_portfolio_risk", "calculate_financial_ratios",
                    "calculate_var", "analyze_sentiment"}
            => r.result = RunAlone(r.call, r.args)

\* caller 2 returned a risk assessment that ran while caller 1 was in the
\* middle of one of its own, on other inputs, with its dict partly filled
C23_Witness ==
    /\ Len(ret[2]) = 1 /\ ret[2][1].call = "assess_portfolio_risk"
    /\ call[1] = "assess_portfolio_risk" /\ pc[1] = "debt"
    /\ Len(ret[1]) = 0
    /\ args[1] # ret[2][1].args
    /\ frame[1].local < Len(heap)
    /\ ret[2][1].result["risk_score"] = Int2Num(8)

(***************************************************************************)
(* Further claims about assess_portfolio_risk and calculate_var.           *)
(***************************************************************************)
ConditionsHeld == Count(VolatilityHigh) + Count(BetaHigh) + Count(DebtHigh)

\* C24: when no error occurs, risk_score is one of 5, 6, 7, 8, the label is
\* never "Low", and it is "High" exactly when at least two of the conditions
\* volatility > 0.3, beta > 1.5, debt_to_equity > 100 hold and "Medium"
\* otherwise: one triggered condition leaves the label "Medium".
C24_ScoreRangeAndLabel ==
    (RiskDone /\ ~Has("error")) =>
        /\ ret["risk_score"] \in {Int2Num(5), Int2Num(6), Int2Num(7), Int2Num(8)}
        /\ ret["overall_risk"] # "Low"
        /\ ret["overall_risk"] = "High" <=> ConditionsHeld >= 2
        /\ ret["overall_risk"] = "Medium" <=> ConditionsHeld < 2
        /\ ConditionsHeld = 1 => ret["overall_risk"] = "Medium"

\* exactly two conditions hold (volatility and debt, with a low beta)
C24_Witness ==
    /\ RiskDone /\ ~Has("error")
    /\ VolatilityHigh /\ DebtHigh /\ BetaLow
    /\ ret["risk_score"] = Int2Num(7)
    /\ ret["overall_risk"] = "High"

\* (1 - c) x n < 1 for the confidence level c as written
BelowOne(c, n) == c.tag = "percent" /\ (100 - c.k) * n < 100

\* C25: for n >= 10 numeric observations and a confidence level strictly
\* between 0 and 1, the index int((1 - confidence) x n) lies in 0 .. n-1 and
\* calculate_var does not fail; worst_case_scenario <= var_95 <=
\* best_case_scenario and worst_case_scenario <= average_return <=
\* best_case_scenario; and var_95 is the worst case whenever
\* (1 - confidence) x n < 1.
C25_VarIndexInRange ==
    (VarDone /\ NObservations >= 10 /\ AllNum(Observations) /\ ConfidenceInside) =>
        /\ VarIndex(Confidence, NObservations) \in 0 .. NObservations - 1
        /\ ~Has("error")
        /\ ~Less(ret["var_95"], ret["worst_case_scenario"])
        /\ ~Less(ret["best_case_scenario"], ret["var_95"])
        /\ ~Less(ret["average_return"], ret["worst_case_scenario"])
        /\ ~Less(ret["best_case_scenario"], ret["average_return"])
        /\ BelowOne(Confidence, NObservations) =>
              ret["var_95"] = ret["worst_case_scenario"]

----------------------------------------------------------------------------
(***************************************************************************)
(* simple_stock_crew.py: StockAnalysisCrew.analyze_stock, one statement    *)
(* group per step.  The provider's answer and the outcome of each HTTP     *)
(* call to the language model are the inputs.                              *)
(***************************************************************************)

\* the outcomes of requests.post(...) and of response.json()
PostRaises == [kind |-> "raises", status |-> 0, body |-> PyNone]
Status(code) == [kind |-> "response", status |-> code, body |-> PyNone]
Json(body) == [kind |-> "response", status |-> 200, body |-> body]

\* a JSON body that is an object: result.get works on it
IsObject(body) == body # PyNone /\ body # PyList(<<>>)

NoResponse == Str("No response generated")

\* OllamaAgent.think, lines 29-64, given the outcome of the HTTP call
think(reply) ==
    IF reply.kind = "raises" THEN Str("Error communicating with Ollama")
    ELSE IF reply.status # 200 THEN Str("Error: " \o ToString(reply.status))
    ELSE IF ~IsObject(reply.body) THEN Str("Error communicating with Ollama")
    ELSE Get(reply.body, "response", NoResponse)

\* f"{value:,}" raises for a value that is not a number
FormatRaises(value) == ~IsNum(value)

\* value[:500] raises for a value that is not a string
SliceRaises(value) == value.tag # "str"

\* symbol.upper()
Upper(symbol) == Str(IF symbol.s = "aapl" THEN "AAPL" ELSE symbol.s)

Locals(stock_data, results) == [stock_data |-> stock_data, results |-> results]

ThinkCall(agent, results) == [agent |-> agent, returned |-> DOMAIN results]

Analyses == {"market_analysis", "financial_analysis", "risk_analysis"}

(* Inputs: a full payload, one without marketCap, one with marketCap or    *)
(* every key None, an empty one, no payload; every kind of history.  The   *)
(* language model answers with text, with no "response" key, with a null   *)
(* response, with a body that is no object, with status 500, or not at all.*)
CrewSymbols == {Str("AAPL"), Str("aapl")}

CrewPayloads ==
    {Payload({}, {}), Payload({"marketCap"}, {}), Payload({}, {"marketCap"}),
     Payload({}, InfoKeys), Payload(InfoKeys, {}), PyNone}

CrewProviders ==
    {Provider(FALSE, info, h) : info \in CrewPayloads,
                                h \in {NoHistory("empty"), NoHistory("raises")}}
        \cup {Provider(TRUE, PyNone, NoHistory("raises"))}

Replies ==
    {PostRaises, Status(500), Json(PyNone), Json(PyList(<<>>)), Json(EmptyDict),
     Json(Put(EmptyDict, "response", Str("analysis"))),
     Json(Put(EmptyDict, "response", PyNone))}

InitCrew ==
    /\ call = "StockAnalysisCrew.analyze_stock"
    /\ args \in {[symbol |-> sy, provider |-> p, now |-> Str("2024-01-01 00:00:00")] :
                    sy \in CrewSymbols, p \in CrewProviders}
    /\ ret = EmptyDict
    /\ pc = "fetch"
    /\ heap = <<>>
    /\ frame = Locals(EmptyDict, EmptyDict)

\* lines 137-140
FetchData ==
    /\ pc = "fetch"
    /\ LET stock_data == fetcher_get_stock_info(args.symbol, args.provider)
       IN  /\ frame' = Locals(stock_data, EmptyDict)
           /\ IF "error" \in DOMAIN stock_data
              THEN ret' = [error |-> stock_data["error"]] /\ pc' = "done"
              ELSE ret' = ret /\ pc' = "context"
    /\ UNCHANGED <<call, args, heap>>

\* lines 143-156: the context f-string; nothing in the function catches
CreateContext ==
    /\ pc = "context"
    /\ IF FormatRaises(frame.stock_data["market_cap"])
       THEN ret' = Escapes("format") /\ pc' = "done"
       ELSE ret' = ret /\ pc' = "market"
    /\ UNCHANGED <<call, args, heap, frame>>

\* results[key] = self.agents[agent].think(prompt, context)
AgentThink(agent, key, reply) ==
    /\ heap' = Append(heap, ThinkCall(agent, frame.results))
    /\ frame' = Locals(frame.stock_data, Put(frame.results, key, think(reply)))

\* lines 159-171
MarketAnalysis ==
    /\ pc = "market"
    /\ \E reply \in Replies : AgentThink("market_analyst", "market_analysis", reply)
    /\ pc' = "financial"
    /\ UNCHANGED <<call, args, ret>>

\* lines 174-186
FinancialAnalysis ==
    /\ pc = "financial"
    /\ \E reply \in Replies :
          AgentThink("financial_analyst", "financial_analysis", reply)
    /\ pc' = "risk"
    /\ UNCHANGED <<call, args, ret>>

\* lines 189-201
RiskAnalysis ==
    /\ pc = "risk"
    /\ \E reply \in Replies : AgentThink("risk_analyst", "risk_analysis", reply)
    /\ pc' = "recommend"
    /\ UNCHANGED <<call, args, ret>>

\* lines 204-223: the prompt slices the three analyses, then the advisor thinks
InvestmentRecommendation ==
    /\ pc = "recommend"
    /\ IF \E key \in Analyses : SliceRaises(frame.results[key])
       THEN /\ ret' = Escapes("subscript")
            /\ pc' = "done"
            /\ UNCHANGED <<heap, frame>>
       ELSE /\ \E reply \in Replies :
                  AgentThink("investment_advisor", "investment_recommendation", reply)
            /\ pc' = "compile"
            /\ ret' = ret
    /\ UNCHANGED <<call, args>>

\* lines 226-236
CompileReport ==
    /\ pc = "compile"
    /\ ret' = [symbol |-> Upper(args.symbol),
               analysis_date |-> args.now,
               stock_data |-> frame.stock_data,
               market_analysis |-> frame.results["market_analysis"],
               financial_analysis |-> frame.results["financial_analysis"],
               risk_analysis |-> frame.results["risk_analysis"],
               investment_recommendation |-> frame.results["investment_recommendation"]]
    /\ pc' = "done"
    /\ UNCHANGED <<call, args, heap, frame>>

NextCrew ==
    \/ FetchData
    \/ CreateContext
    \/ MarketAnalysis
    \/ FinancialAnalysis
    \/ RiskAnalysis
    \/ InvestmentRecommendation
    \/ CompileReport

SpecCrew == InitCrew /\ [][NextCrew]_vars

(* Claim about analyze_stock *)
CrewDone == pc = "done"
FetchFailed == "error" \in DOMAIN frame.stock_data
Invoked == [i \in 1 .. Len(heap) |-> heap[i].agent]
FourAgents == <<"market_analyst", "financial_analyst", "risk_analyst", "investment_advisor">>
Sections == Analyses \cup {"investment_recommendation"}

\* C26: the agents invoked in one run of analyze_stock are none, or
\* market_analyst, financial_analyst, risk_analyst, investment_advisor once
\* each in that order; none exactly when the data fetch returned an error,
\* and then the result holds only `error`; otherwise the run is not aborted,
\* the investment advisor is invoked only after the three analyses have
\* returned, and the report contains all four analysis sections.
C26_AgentsInFixedOrder ==
    /\ \A i \in 1 .. Len(heap) :
          heap[i].agent = "investment_advisor" => Analyses \subseteq heap[i].returned
    /\ CrewDone =>
          /\ Invoked = <<>> \/ Invoked = FourAgents
          /\ Invoked = <<>> <=> FetchFailed
          /\ FetchFailed => DOMAIN ret = {"error"}
          /\ ~FetchFailed => Sections \subseteq DOMAIN ret

====
